---- MODULE Spec2Model ----
(***************************************************************************)
(* RRTStarPlanner of pykin/planners/rrt_star_planner.py, for a robot with  *)
(* one joint (dimension = len(current_q) = 1).  A configuration is then a  *)
(* single number and the Euclidean distance np.linalg.norm(b - a) is       *)
(* |b - a|.  Lengths are counted in units of 0.2 rad, so that the goal     *)
(* tolerance 0.2 of reach_to_goal is 1 and every joint value, distance and *)
(* cost of the model is an integer and is computed exactly.                *)
(***************************************************************************)
EXTENDS Integers, Sequences, FiniteSets

\* ------------------------------------------------------------- bounds
\* Joint values the model draws from: 0 .. QMax.
QMax == 7
\* self.max_iter of the planner instances of Spec.
MaxIter == 4
\* self.max_iter of the planner instance of SpecDeep.
MaxIterDeep == 5
\* self.max_iter of the planner instance of SpecReuse.
MaxIterReuse == 3
\* How many times the caller of SpecReuse calls generate_path.
MaxRuns == 2
\* How many grasp poses generate_grasps yields at most (num_grasp * n_trials).
MaxGrasps == 3

\* ------------------------------------------------ planner parameters
\* the literal 0.2 of reach_to_goal, in units of 0.2 rad.
Tolerance == 1
\* robot.joint_limits_upper.
q_limits_upper == QMax

\* The planner instances (constructor arguments and their robot and
\* obstacles) of Spec:
\*   delta   delta_distance, in units of 0.2 rad
\*   gamma   gamma_RRT_star: 5 (1.0 rad) gives a search radius below delta,
\*           1500 (the default, 300 rad) a radius cut to delta
\*   lower   robot.joint_limits_lower
\*   coll    the configurations at which the robot touches an obstacle
\*   obs     whether two obstacles overlap each other
\*   iters   max_iter
\*   calls   how many times the caller calls generate_path on the planner
Instances ==
  [delta : {3}, gamma : {5, 1500}, lower : {0, 1}, coll : {{}, {0}, {3}},
   obs : BOOLEAN, iters : {MaxIter}, calls : {1}]
\* The planner instance of SpecDeep: a long step, a short search radius,
\* no obstacle.
DeepInstances ==
  [delta : {7}, gamma : {5}, lower : {0}, coll : {{}}, obs : {FALSE}, iters : {MaxIterDeep},
   calls : {1}]
\* The planner instance of SpecReuse: one planner object that is set up and
\* run again after generate_path has returned.
ReuseInstances ==
  [delta : {3}, gamma : {1500}, lower : {0}, coll : {{}}, obs : {FALSE}, iters : {MaxIterReuse},
   calls : {MaxRuns}]

\* What a caller passes as current_q / goal_q.
\* `val` is the joint value (of every component), `dim` the length.
Args == {[kind |-> "None", val |-> 0, dim |-> 0]}
          \cup [kind : {"ndarray", "list"}, val : {0, 2}, dim : {1}]
GoalArgs == {[kind |-> "None", val |-> 0, dim |-> 0], [kind |-> "list", val |-> 2, dim |-> 1]}
          \cup [kind : {"ndarray"}, val : {2, 3, QMax + 1}, dim : {1}]
          \cup {[kind |-> "ndarray", val |-> 2, dim |-> 2]}
\* The configurations whose link poses a caller passes as `transformation`
\* (robot.init_transformations by default).
InitPoses == {0, 3}

\* Python's None, as an argument and as a return value
NoArg == [kind |-> "None", val |-> 0, dim |-> 0]
\* no public method has been called yet
NoCall == [op |-> "none", current_q |-> NoArg, goal_q |-> NoArg, transformation |-> 0]
None == {}
Some(x) == {x}
\* self.fcl_manager does not exist yet
NoPose == -1

VARIABLES
  pc,               \* position of the caller: new, ready, loop, rewire, done, error
  call,             \* the latest call of a public method, with its arguments
  err,              \* the exception that ended setup, or "none"
  err_args,         \* the argument of that exception
  tree_out,         \* what get_rrt_tree returned to the caller, or None
  cur_q, goal_q,    \* self.cur_q, self.goal_q: [kind, val]
  q_limits_lower,   \* self.q_limits_lower
  delta_dis,        \* self.delta_dis
  gamma_RRTs,       \* self.gamma_RRTs
  max_iter,         \* self.max_iter
  collQ, obsObs,    \* the Collision Oracle: robot-colliding configurations,
                    \* and whether two obstacles overlap each other
  link_q,           \* the configuration at whose poses the robot's links stand
                    \* in self.fcl_manager (NoPose: no fcl_manager yet)
  calls, runs,      \* the caller: the generate_path calls it makes, and has made
  vertices, edges,  \* self.T.vertices, self.T.edges
  cost,             \* self.cost
  k,                \* loop variable of generate_path
  path,             \* local `path` of generate_path, then its return value
  neighbor_indexes, new_idx, ri,  \* locals of the iteration, and the position in rewire's loop
  \* GraspManager of pykin/tasks/grasp.py
  gpc,              \* position of its caller: idle, filter, returned
  obj_info,         \* whether self.obj_info is set
  robot_c_manager,  \* the objects attached to self.robot_c_manager, by name
  grasp_poses,      \* how many grasp poses the generator grasp_poses still yields
  checks,           \* the collision_free calls of filter_grasps so far: the pose
                    \* checked and whether the object was attached then
  grasp_pose        \* what filter_grasps returned: None, or the number of the pose

vars == <<pc, call, err, err_args, tree_out, cur_q, goal_q, q_limits_lower, delta_dis, gamma_RRTs, max_iter, collQ, obsObs,
          link_q, calls, runs, gpc, obj_info, robot_c_manager, grasp_poses, checks, grasp_pose, vertices, edges, cost, k, path, neighbor_indexes, new_idx, ri>>

\* the state of the GraspManager
grasp_vars == <<gpc, obj_info, robot_c_manager, grasp_poses, checks, grasp_pose>>

\* the state of the RRTStarPlanner
planner_vars == <<pc, call, err, err_args, tree_out, cur_q, goal_q, q_limits_lower, delta_dis,
                  gamma_RRTs, max_iter, collQ, obsObs, link_q, calls, runs,
                  vertices, edges, cost, k, path, neighbor_indexes, new_idx, ri>>

\* what the constructor fixes for the life of the planner
params == <<q_limits_lower, delta_dis, gamma_RRTs, max_iter, collQ, obsObs, calls>>

\* ------------------------------------------------------------ helpers
Abs(x) == IF x < 0 THEN -x ELSE x
Min(a, b) == IF a < b THEN a ELSE b

\* distance(pointA, pointB) = np.linalg.norm(pointB - pointA)
distance(pointA, pointB) == Abs(pointB - pointA)

\* tree.vertices[i] for a 0-based Python index i
V(i) == vertices[i + 1]
\* Python's edges[j] for j >= 0 is edges[j + 1]; edges[-1] is the last one.
EdgeSlot(j) == IF j < 0 THEN Len(edges) + 1 + j ELSE j + 1

\* 10000 * ln(n) / n for n = 1 .. 12 (math.log(card_V) / card_V)
LnOverN == <<0, 3466, 3662, 3466, 3219, 2986, 2780, 2599, 2441, 2303, 2180, 2071>>

\* collision_free without its set_transform loop: the links stay where the
\* previous check left them
set_transform_skipped(q) == link_q

\* collision_free, lines 211-215: every registered link is moved to its pose
\* of forward_kin(q); the configuration the links stand at afterwards.
set_transform(q) == q

\* collision_free that never asks the oracle
collision_free_unchecked(q) == TRUE

\* collision_free(q): every link is moved to its pose for q, then the oracle
\* reports whether any pair of registered objects collides.
collision_free(q) ==
  LET pose == set_transform(q)
  IN ~obsObs /\ pose \notin collQ

\* _q_in_limits with the upper limit forgotten
q_in_limits_lower_only(q_in) == q_in >= q_limits_lower

_q_in_limits(q_in) == q_in >= q_limits_lower /\ q_in <= q_limits_upper

\* nearest_neighbor: np.argmin returns the first index of the minimum.
nearest_neighbor(random_q) ==
  CHOOSE i \in 0..(Len(vertices) - 1) :
    /\ \A j \in 0..(Len(vertices) - 1) : distance(random_q, V(i)) <= distance(random_q, V(j))
    /\ \A j \in 0..(i - 1) : distance(random_q, V(j)) > distance(random_q, V(i))

\* new_state without the step limit: the sample itself
new_state_unbounded(nearest_q, random_q) == random_q

\* new_state with step = delta_dis instead of min(delta_dis, dist)
new_state_full_step(nearest_q, random_q) ==
  IF nearest_q = random_q THEN nearest_q
  ELSE nearest_q + (IF random_q > nearest_q THEN 1 ELSE -1) * delta_dis

new_state(nearest_q, random_q) ==
  IF nearest_q = random_q THEN nearest_q
  ELSE LET dist == distance(random_q, nearest_q)
           step == Min(delta_dis, dist)
           unit_vector == IF random_q > nearest_q THEN 1 ELSE -1
       IN nearest_q + unit_vector * step

\* find_near_neighbor's test with delta_dis alone for the search radius
WithinDelta(dist) == dist <= delta_dis

\* dist <= search_radius, with search_radius = min(r, delta_dis) and
\* r = gamma * (ln(card_V) / card_V) ** (1 / dimension), dimension = 1;
\* both sides are scaled by 10000.
WithinRadius(dist) ==
  LET card_V == Len(vertices) + 1
      r == gamma_RRTs * LnOverN[card_V]
      search_radius == Min(r, delta_dis * 10000)
  IN dist * 10000 <= search_radius

RECURSIVE NearFrom(_, _)
NearFrom(idx, q) ==
  IF idx >= Len(vertices) THEN <<>>
  ELSE (IF WithinRadius(distance(V(idx), q)) /\ collision_free(q) THEN <<idx>> ELSE <<>>)
         \o NearFrom(idx + 1, q)

find_near_neighbor(q) == NearFrom(0, q)

\* get_new_cost without the length of the new edge
get_new_cost_no_edge(idx, A, B) == cost[idx]

get_new_cost(idx, A, B) == cost[idx] + distance(A, B)

\* get_minimum_cost that lowers min_cost but keeps nearest_idx
RECURSIVE MinCostUpToKeepsParent(_, _, _, _, _)
MinCostUpToKeepsParent(n, nbrs, new_q, min_cost, nearest_idx) ==
  IF n = 0 THEN <<min_cost, nearest_idx>>
  ELSE LET prev == MinCostUpToKeepsParent(n - 1, nbrs, new_q, min_cost, nearest_idx)
           i == nbrs[n]
           new_cost == get_new_cost(i, new_q, V(i))
       IN IF new_cost < prev[1] /\ collision_free(new_q) THEN <<new_cost, nearest_idx>> ELSE prev

\* get_minimum_cost with <= for <
RECURSIVE MinCostUpToLoose(_, _, _, _, _)
MinCostUpToLoose(n, nbrs, new_q, min_cost, nearest_idx) ==
  IF n = 0 THEN <<min_cost, nearest_idx>>
  ELSE LET prev == MinCostUpToLoose(n - 1, nbrs, new_q, min_cost, nearest_idx)
           i == nbrs[n]
           new_cost == get_new_cost(i, new_q, V(i))
       IN IF new_cost <= prev[1] /\ collision_free(new_q) THEN <<new_cost, i>> ELSE prev

\* get_minimum_cost: the pair <<min_cost, nearest_idx>> after the first n neighbours
RECURSIVE MinCostUpTo(_, _, _, _, _)
MinCostUpTo(n, nbrs, new_q, min_cost, nearest_idx) ==
  IF n = 0 THEN <<min_cost, nearest_idx>>
  ELSE LET prev == MinCostUpTo(n - 1, nbrs, new_q, min_cost, nearest_idx)
           i == nbrs[n]
           new_cost == get_new_cost(i, new_q, V(i))
       IN IF new_cost < prev[1] /\ collision_free(new_q) THEN <<new_cost, i>> ELSE prev

get_minimum_cost(nbrs, new_q, min_cost, nearest_idx) ==
  MinCostUpTo(Len(nbrs), nbrs, new_q, min_cost, nearest_idx)

\* reach_to_goal with twice the tolerance
reach_to_goal_wide(point) == distance(point, goal_q.val) <= 2 * Tolerance

\* reach_to_goal with < for <=
reach_to_goal_strict(point) == distance(point, goal_q.val) < Tolerance

reach_to_goal(point) == distance(point, goal_q.val) <= Tolerance

\* find_path's loop with `if` for `while`: one round only
BacktrackOnce(goal_idx, fuel) == IF goal_idx = 0 THEN <<>> ELSE <<goal_idx>>

\* find_path: the vertices visited by the while loop, in visiting order, or
\* <<-1>> appended when the loop is still running after `fuel` rounds.
RECURSIVE Backtrack(_, _)
Backtrack(goal_idx, fuel) ==
  IF goal_idx = 0 THEN <<>>
  ELSE IF fuel = 0 THEN <<-1>>
  ELSE <<goal_idx>> \o Backtrack(edges[EdgeSlot(goal_idx - 1)][1], fuel - 1)

Reverse(s) == [i \in 1..Len(s) |-> s[Len(s) + 1 - i]]

\* find_path without the final reversal
find_path_unreversed ==
  LET goal_idx == edges[EdgeSlot(-1)][2]
      chain == Backtrack(goal_idx, Len(vertices))
  IN IF \E n \in 1..Len(chain) : chain[n] = -1 THEN None
     ELSE Some(<<goal_q.val>> \o [n \in 1..Len(chain) |-> V(chain[n])] \o <<cur_q.val>>)

\* find_path(tree): None stands for a while loop that never ends.
find_path ==
  LET goal_idx == edges[EdgeSlot(-1)][2]
      chain == Backtrack(goal_idx, Len(vertices))
  IN IF \E n \in 1..Len(chain) : chain[n] = -1 THEN None
     ELSE Some(Reverse(<<goal_q.val>> \o [n \in 1..Len(chain) |-> V(chain[n])] \o <<cur_q.val>>))

\* add_edge inserting at the front
add_edge_front(q_joints_idx) == <<q_joints_idx>> \o edges

\* add_vertex inserting at the front
add_vertex_front(q_joints) == <<q_joints>> \o vertices

\* Tree.add_vertex and Tree.add_edge (pykin/planners/tree.py): both append.
add_vertex(q_joints) == Append(vertices, q_joints)
add_edge(q_joints_idx) == Append(edges, q_joints_idx)

\* ------------------------------------------------------------- setup
\* np.array(x) of an argument that is not an ndarray; np.array(None) is a
\* 0-d object array ("ndarray0").
np_array(x) ==
  IF x.kind = "None" THEN [kind |-> "ndarray0", val |-> 0, dim |-> 0]
  ELSE [kind |-> "ndarray", val |-> x.val, dim |-> x.dim]

\* the truth value of a.all()
all(a) == a.kind = "ndarray" /\ a.val # 0

\* local current_q of setup_start_goal_joint after lines 46-50
ConvertedStart(current_q, goal_q_in) ==
  LET c1 == IF current_q.kind # "ndarray" THEN np_array(current_q) ELSE current_q
  IN IF goal_q_in.kind # "ndarray" THEN np_array(goal_q_in) ELSE c1

\* _check_q_data left out
check_q_data_skipped(current_q, goal_q_in) == "none"

\* _check_q_data: the exception it ends with, or "none"
_check_q_data(current_q, goal_q_in) ==
  IF all(current_q) THEN "NotFoundError"
  ELSE IF goal_q_in.kind # "ndarray" THEN "AttributeError"
  ELSE "none"

\* fcl_manager.collision_check(return_names=True) with the links at the poses
\* of `transformation`: the colliding pairs of object names.  Obstacles are
\* registered under the names obstacle_1, obstacle_2; "link" is a robot link.
collision_check(transformation) ==
  (IF obsObs THEN << <<"obstacle_1", "obstacle_2">> >> ELSE << >>)
    \o (IF transformation \in collQ THEN << <<"link", "obstacle_1">> >> ELSE << >>)

\* "obstacle" in name
IsObstacleName(name) == name \in {"obstacle_1", "obstacle_2"}

\* _check_init_collision without the obstacle-obstacle exception
RaisedPairAny(obj_names) == IF obj_names = << >> THEN << >> ELSE Head(obj_names)

\* _check_init_collision: the first reported pair that is not a pair of two
\* obstacles, which CollisionError is raised with; << >> when there is none.
RECURSIVE RaisedPair(_)
RaisedPair(obj_names) ==
  IF obj_names = << >> THEN << >>
  ELSE IF ~(IsObstacleName(Head(obj_names)[1]) /\ IsObstacleName(Head(obj_names)[2]))
       THEN Head(obj_names)
  ELSE RaisedPair(Tail(obj_names))

\* _check_init_collision: the exception it ends with, or "none"
_check_init_collision(transformation) ==
  IF RaisedPair(collision_check(transformation)) # << >> THEN "CollisionError" ELSE "none"

\* __init__ for the instance `inst`
Constructed(inst) ==
  /\ pc = "new"
  /\ call = NoCall
  /\ err = "none"
  /\ err_args = << >>
  /\ tree_out = None
  /\ cur_q = NoArg
  /\ goal_q = NoArg
  /\ q_limits_lower = inst.lower
  /\ delta_dis = inst.delta
  /\ gamma_RRTs = inst.gamma
  /\ max_iter = inst.iters
  /\ collQ = inst.coll
  /\ obsObs = inst.obs
  /\ link_q = NoPose
  /\ calls = inst.calls
  /\ runs = 0
  /\ vertices = <<>>
  /\ edges = <<>>
  /\ cost = <<>>
  /\ k = 0
  /\ path = None
  /\ neighbor_indexes = <<>>
  /\ new_idx = 0
  /\ ri = 0

\* GraspManager.__init__: self.obj_info = None, and a robot collision
\* manager that holds the robot only
GraspManagerConstructed ==
  /\ gpc = "idle"
  /\ obj_info = FALSE
  /\ robot_c_manager = {}
  /\ grasp_poses = 0
  /\ checks = << >>
  /\ grasp_pose = None

Init == (\E inst \in Instances : Constructed(inst)) /\ GraspManagerConstructed

InitDeep == (\E inst \in DeepInstances : Constructed(inst)) /\ GraspManagerConstructed

InitReuse == (\E inst \in ReuseInstances : Constructed(inst)) /\ GraspManagerConstructed

setup_start_goal_joint(current_q, goal_q_in, transformation) ==
  /\ pc = "new" \/ (pc = "done" /\ runs < calls)
  /\ LET c == ConvertedStart(current_q, goal_q_in)
         e1 == _check_q_data(c, goal_q_in)
         e2 == IF c.kind = "ndarray0" THEN "TypeError" ELSE "none"
         e3 == _check_init_collision(transformation)
     IN /\ cur_q' = IF e1 = "none" THEN c ELSE cur_q
        /\ goal_q' = IF e1 = "none" THEN goal_q_in ELSE goal_q
        /\ err' = IF e1 # "none" THEN e1 ELSE IF e2 # "none" THEN e2 ELSE e3
        /\ err_args' = IF e1 = "none" /\ e2 = "none" /\ e3 # "none"
                       THEN RaisedPair(collision_check(transformation)) ELSE << >>
        /\ link_q' = IF e1 = "none" /\ e2 = "none" THEN transformation ELSE link_q
        /\ pc' = IF err' = "none" THEN "ready" ELSE "error"
  /\ call' = [op |-> "setup_start_goal_joint", current_q |-> current_q,
              goal_q |-> goal_q_in, transformation |-> transformation]
  /\ tree_out' = None
  /\ UNCHANGED <<params, grasp_vars, runs, vertices, edges, cost,
                 k, path, neighbor_indexes, new_idx, ri>>

\* generate_path that goes on with the costs of the previous call
SeedKeepsCost ==
  /\ pc = "ready" \/ (pc = "done" /\ runs < calls)
  /\ cur_q.dim = 1 /\ goal_q.dim = 1
  /\ call' = [NoCall EXCEPT !.op = "generate_path"]
  /\ runs' = runs + 1
  /\ tree_out' = None
  /\ vertices' = <<cur_q.val>>
  /\ edges' = <<>>
  /\ cost' = IF cost = << >> THEN [i \in {0} |-> 0] ELSE [cost EXCEPT ![0] = 0]
  /\ path' = None
  /\ k' = 0
  /\ neighbor_indexes' = << >> /\ new_idx' = 0 /\ ri' = 0
  /\ pc' = "loop"
  /\ UNCHANGED <<err, err_args, cur_q, goal_q, params, grasp_vars, link_q>>

\* generate_path, lines 98-102 (followed for one-joint start and goal only):
\* a first call, or a further call on a planner whose generate_path has
\* returned.  The locals of the previous call and the value the caller got
\* from get_rrt_tree are gone.
Seed ==
  /\ pc = "ready" \/ (pc = "done" /\ runs < calls)
  /\ cur_q.dim = 1 /\ goal_q.dim = 1
  /\ call' = [NoCall EXCEPT !.op = "generate_path"]
  /\ runs' = runs + 1
  /\ tree_out' = None
  /\ vertices' = <<cur_q.val>>
  /\ edges' = <<>>
  /\ cost' = [i \in {0} |-> 0]
  /\ path' = None
  /\ k' = 0
  /\ neighbor_indexes' = << >> /\ new_idx' = 0 /\ ri' = 0
  /\ pc' = "loop"
  /\ UNCHANGED <<err, err_args, cur_q, goal_q, params, grasp_vars, link_q>>

\* random_state: a uniform draw within the limits, or the goal
Samples == (q_limits_lower..q_limits_upper) \cup {goal_q.val}

\* generate_path, lines 105-120 of one iteration
Extend(rand_q) ==
  /\ pc = "loop"
  /\ k < max_iter
  /\ LET nearest_idx == nearest_neighbor(rand_q)
         nearest_q == V(nearest_idx)
         new_q == new_state(nearest_q, rand_q)
     IN /\ IF collision_free(new_q) /\ _q_in_limits(new_q)
           THEN LET nbrs == find_near_neighbor(new_q)
                    min_cost == get_new_cost(nearest_idx, nearest_q, new_q)
                    best == get_minimum_cost(nbrs, new_q, min_cost, nearest_idx)
                    idx == Len(vertices)
                IN /\ vertices' = add_vertex(new_q)
                   /\ new_idx' = idx
                   /\ cost' = [i \in 0..idx |-> IF i = idx THEN best[1] ELSE cost[i]]
                   /\ edges' = add_edge(<<best[2], idx>>)
                   /\ neighbor_indexes' = nbrs
                   /\ ri' = 1
                   /\ pc' = "rewire"
                   /\ UNCHANGED k
           ELSE /\ k' = k + 1
                /\ UNCHANGED <<vertices, edges, cost, neighbor_indexes, new_idx, ri, pc>>
        /\ link_q' = set_transform(new_q)
  /\ UNCHANGED <<call, err, err_args, tree_out, cur_q, goal_q, params, grasp_vars, runs, path>>

\* rewire's test with the cost of the new vertex left out of new_cost
RewireTestEdgeOnly(i) ==
  collision_free(V(i)) /\ distance(V(new_idx), V(i)) <= cost[i]

\* rewire's test with <= for <
RewireTestLoose(i) ==
  collision_free(V(i)) /\ get_new_cost(new_idx, V(new_idx), V(i)) <= cost[i]

\* rewire's test without the cost comparison
RewireTestNoCost(i) == collision_free(V(i))

\* rewire, line 206: the test that lets vertex i be re-parented
RewireTest(i) ==
  LET no_collision == collision_free(V(i))
      new_cost == get_new_cost(new_idx, V(new_idx), V(i))
  IN no_collision /\ new_cost < cost[i]

\* rewire looping over the positions of the neighbour list instead of its
\* entries (for i in range(len(neighbor_indexes)))
RewireStepByPosition ==
  /\ pc = "rewire"
  /\ ri <= Len(neighbor_indexes)
  /\ LET i == ri - 1
         new_q == V(new_idx)
         new_cost == get_new_cost(new_idx, new_q, V(i))
     IN IF RewireTest(i)
        THEN /\ cost' = [cost EXCEPT ![i] = new_cost]
             /\ edges' = [edges EXCEPT ![EdgeSlot(i - 1)][1] = new_idx]
        ELSE UNCHANGED <<cost, edges>>
  /\ link_q' = set_transform(V(ri - 1))
  /\ ri' = ri + 1
  /\ UNCHANGED <<pc, call, err, err_args, tree_out, cur_q, goal_q, params, grasp_vars, runs,
                 vertices, k, path, neighbor_indexes, new_idx>>

\* rewire: one round of its loop, for i = neighbor_indexes[ri]
RewireStep ==
  /\ pc = "rewire"
  /\ ri <= Len(neighbor_indexes)
  /\ LET i == neighbor_indexes[ri]
         new_q == V(new_idx)
         new_cost == get_new_cost(new_idx, new_q, V(i))
     IN IF RewireTest(i)
        THEN /\ cost' = [cost EXCEPT ![i] = new_cost]
             /\ edges' = [edges EXCEPT ![EdgeSlot(i - 1)][1] = new_idx]
        ELSE UNCHANGED <<cost, edges>>
  /\ link_q' = set_transform(V(neighbor_indexes[ri]))
  /\ ri' = ri + 1
  /\ UNCHANGED <<pc, call, err, err_args, tree_out, cur_q, goal_q, params, grasp_vars, runs,
                 vertices, k, path, neighbor_indexes, new_idx>>

\* lines 124-125 with the hit remembered only while no path is recorded
RecordedPathKeepFirst ==
  IF reach_to_goal(V(new_idx)) /\ path = None THEN find_path ELSE path

\* generate_path, lines 124-125: the value of `path` after them
RecordedPath == IF reach_to_goal(V(new_idx)) THEN find_path ELSE path

\* generate_path, lines 124-125, and the end of the iteration
GoalCheck ==
  /\ pc = "rewire"
  /\ ri > Len(neighbor_indexes)
  /\ path' = RecordedPath
  /\ pc' = IF reach_to_goal(V(new_idx)) /\ find_path = None THEN "hang" ELSE "loop"
  /\ k' = k + 1
  /\ UNCHANGED <<call, err, err_args, tree_out, cur_q, goal_q, params, grasp_vars, link_q, runs,
                 vertices, edges, cost, neighbor_indexes, new_idx, ri>>

\* generate_path returning as soon as a path is recorded
ReturnOnFirstPath ==
  /\ pc = "loop"
  /\ k = max_iter \/ path # None
  /\ pc' = "done"
  /\ UNCHANGED <<call, err, err_args, tree_out, cur_q, goal_q, params, grasp_vars, link_q, runs,
                 vertices, edges, cost, k, path, neighbor_indexes, new_idx, ri>>

\* generate_path, line 127
Return ==
  /\ pc = "loop"
  /\ k = max_iter
  /\ pc' = "done"
  /\ UNCHANGED <<call, err, err_args, tree_out, cur_q, goal_q, params, grasp_vars, link_q, runs,
                 vertices, edges, cost, k, path, neighbor_indexes, new_idx, ri>>

\* get_rrt_tree with every vertex paired with the vertex inserted before it
get_rrt_tree_chain ==
  [j \in 1..Len(edges) |-> <<V(j - 1), V(j)>>]

\* get_rrt_tree, lines 248-253: the list it builds
get_rrt_tree ==
  [j \in 1..Len(edges) |-> <<V(edges[j][1]), V(edges[j][2])>>]

\* a call of get_rrt_tree after generate_path has returned
GetRrtTree ==
  /\ pc = "done"
  /\ tree_out = None
  /\ tree_out' = Some(get_rrt_tree)
  /\ call' = [NoCall EXCEPT !.op = "get_rrt_tree"]
  /\ UNCHANGED <<pc, err, err_args, cur_q, goal_q, params, grasp_vars, link_q, runs,
                 vertices, edges, cost, k, path, neighbor_indexes, new_idx, ri>>

Next ==
  \/ \E c \in Args, g \in GoalArgs, t \in InitPoses : setup_start_goal_joint(c, g, t)
  \/ Seed
  \/ \E rand_q \in Samples : Extend(rand_q)
  \/ RewireStep
  \/ GoalCheck
  \/ Return
  \/ GetRrtTree

Spec == Init /\ [][Next]_vars

SpecDeep == InitDeep /\ [][Next]_vars

SpecReuse == InitReuse /\ [][Next]_vars

\* A caller that passes goals at the start configuration or one tolerance
\* away from it.
NearGoalArgs == [kind : {"ndarray"}, val : {0, 1}, dim : {1}]

NextNear ==
  \/ \E c \in Args, g \in NearGoalArgs, t \in InitPoses : setup_start_goal_joint(c, g, t)
  \/ Seed
  \/ \E rand_q \in Samples : Extend(rand_q)
  \/ RewireStep
  \/ GoalCheck
  \/ Return
  \/ GetRrtTree

SpecNear == InitReuse /\ [][NextNear]_vars

\* ------------------------------------------------------ GraspManager
\* get_grasp_waypoints, lines 58-63, down to the call of filter_grasps:
\* `given` is whether the caller passes obj_info, `n` how many grasp poses
\* generate_grasps is going to yield.
get_grasp_waypoints(given, n) ==
  /\ gpc = "idle"
  /\ obj_info' = (obj_info \/ given)
  /\ grasp_poses' = n
  /\ checks' = << >>
  /\ grasp_pose' = None
  /\ gpc' = "filter"
  /\ UNCHANGED <<robot_c_manager, planner_vars>>

\* What the collaborators answer for one grasp pose: whether inverse
\* kinematics finds a solution, and for the grasp, pre-grasp and post-grasp
\* pose whether _check_ik_solution and collision_free hold.
Answers ==
  [qpos : BOOLEAN, ik : [{"grasp", "pre_grasp", "post_grasp"} -> BOOLEAN],
   free : [{"grasp", "pre_grasp", "post_grasp"} -> BOOLEAN]]

\* `_check_ik_solution(...) and self.collision_free(...)`: collision_free is
\* called only when _check_ik_solution holds
Checked(log, stage, ans, manager) ==
  IF ans.ik[stage] THEN Append(log, [stage |-> stage, with_obj |-> manager # {}]) ELSE log

\* filter_grasps, lines 141-150: the objects in robot_c_manager after the
\* round of the loop for one grasp pose
Attached(ans) ==
  IF /\ ans.qpos
     /\ ans.ik["grasp"] /\ ans.free["grasp"]
     /\ ans.ik["pre_grasp"] /\ ans.free["pre_grasp"]
     /\ obj_info
  THEN {"object"} ELSE robot_c_manager

\* filter_grasps, lines 119-156: one round of its loop
FilterGrasp(ans) ==
  /\ gpc = "filter"
  /\ grasp_poses > 0
  /\ LET pass(st) == ans.ik[st] /\ ans.free[st]
         log1 == IF ans.qpos THEN Checked(checks, "grasp", ans, robot_c_manager) ELSE checks
         log2 == IF ans.qpos /\ pass("grasp")
                 THEN Checked(log1, "pre_grasp", ans, robot_c_manager) ELSE log1
         log3 == IF ans.qpos /\ pass("grasp") /\ pass("pre_grasp")
                 THEN Checked(log2, "post_grasp", ans, Attached(ans)) ELSE log2
         is_success_filtered ==
           ans.qpos /\ pass("grasp") /\ pass("pre_grasp") /\ pass("post_grasp")
     IN /\ checks' = log3
        /\ robot_c_manager' = Attached(ans)
        /\ IF is_success_filtered
           THEN /\ gpc' = "returned"
                /\ grasp_pose' = Some(grasp_poses)
                /\ UNCHANGED grasp_poses
           ELSE /\ grasp_poses' = grasp_poses - 1
                /\ UNCHANGED <<gpc, grasp_pose>>
  /\ UNCHANGED <<obj_info, planner_vars>>

\* filter_grasps, lines 158-160: the poses are used up, None is returned
FilterFailed ==
  /\ gpc = "filter"
  /\ grasp_poses = 0
  /\ gpc' = "returned"
  /\ grasp_pose' = None
  /\ UNCHANGED <<obj_info, robot_c_manager, grasp_poses, checks, planner_vars>>

NextGrasp ==
  \/ \E given \in BOOLEAN, n \in 1..MaxGrasps : get_grasp_waypoints(given, n)
  \/ \E ans \in Answers : FilterGrasp(ans)
  \/ FilterFailed

SpecGrasp == InitReuse /\ [][NextGrasp]_vars

\* ==================================================== the claims
InRun == pc \in {"loop", "rewire", "done", "hang"}
Indexes == 0..(Len(vertices) - 1)

\* the parent of vertex v: the first entry of the edge whose child is v
HasParent(v) == \E j \in 1..Len(edges) : edges[j][2] = v
ParentOf(v) == edges[CHOOSE j \in 1..Len(edges) : edges[j][2] = v][1]

\* following parent links from v reaches vertex 0 in at most `fuel` steps
RECURSIVE ReachesRoot(_, _)
ReachesRoot(v, fuel) ==
  IF v = 0 THEN TRUE
  ELSE IF fuel = 0 \/ ~HasParent(v) THEN FALSE
  ELSE ReachesRoot(ParentOf(v), fuel - 1)

\* the length of the chain of parent links from v to vertex 0
RECURSIVE PathLength(_, _)
PathLength(v, fuel) ==
  IF v = 0 \/ fuel = 0 THEN 0
  ELSE distance(V(ParentOf(v)), V(v)) + PathLength(ParentOf(v), fuel - 1)

\* the vertices from v back to vertex 0 along the parent links
RECURSIVE ChainToRoot(_, _)
ChainToRoot(v, fuel) ==
  IF v = 0 \/ fuel = 0 THEN <<0>>
  ELSE <<v>> \o ChainToRoot(ParentOf(v), fuel - 1)

\* vertex v's parent link was written by rewire (a parent younger than v)
Rewired(v) == v >= 1 /\ HasParent(v) /\ ParentOf(v) > v

\* C1: during and after generate_path the edge list has |vertices| - 1
\* entries, vertex 0 has no parent, every other vertex has exactly one, and
\* the parent links lead from every vertex to vertex 0 within |vertices| steps.
C1_TreeValidity ==
  InRun =>
    /\ Len(edges) = Len(vertices) - 1
    /\ ~HasParent(0)
    /\ \A v \in Indexes \ {0} : Cardinality({j \in 1..Len(edges) : edges[j][2] = v}) = 1
    /\ \A v \in Indexes : ReachesRoot(v, Len(vertices))

\* C1 witness: a run in which rewire has re-parented a vertex
C1_Witness == InRun /\ \E v \in Indexes : Rewired(v)

\* C2: every non-root vertex is within delta of its current parent.
C2_StepBound ==
  InRun => \A v \in Indexes \ {0} :
             HasParent(v) => distance(V(v), V(ParentOf(v))) <= delta_dis

\* C2 witness: a vertex steered by the full step delta, and a rewired vertex
C2_Witness ==
  /\ InRun
  /\ \E v \in Indexes \ {0} : HasParent(v) /\ distance(V(v), V(ParentOf(v))) = delta_dis
  /\ \E v \in Indexes : Rewired(v)

\* C3 as claimed: every vertex of the tree, vertex 0 included, lies within
\* the joint limits.
C3_AllWithinLimits ==
  InRun => \A v \in Indexes : q_limits_lower <= V(v) /\ V(v) <= q_limits_upper

\* C3 as amended: every vertex the loop inserts lies within the joint limits
\* (vertex 0 is the start as supplied, which nothing checks against them).
C3_InsertedWithinLimits ==
  InRun => \A v \in Indexes \ {0} : q_limits_lower <= V(v) /\ V(v) <= q_limits_upper

\* C3 witness: a tree grown from a start that lies outside the limits
C3_Witness ==
  /\ InRun
  /\ Len(vertices) >= 3
  /\ ~(q_limits_lower <= V(0))

\* C4: every vertex of the tree, vertex 0 included, is a configuration the
\* Collision Oracle reports collision-free.
C4_AllCollisionFree ==
  InRun => \A v \in Indexes : ~obsObs /\ V(v) \notin collQ

\* C5: right after a vertex is inserted, and right after a rewire round that
\* re-parents a vertex, that vertex's cost is its parent's cost plus the
\* distance between the two.
C5_CostOfParentPlusEdge ==
  pc = "rewire" =>
    /\ ri = 1 => cost[new_idx] = cost[ParentOf(new_idx)]
                                   + distance(V(ParentOf(new_idx)), V(new_idx))
    /\ ri > 1 =>
         LET v == neighbor_indexes[ri - 1]
         IN Rewired(v) /\ ParentOf(v) = new_idx
              => cost[v] = cost[ParentOf(v)] + distance(V(ParentOf(v)), V(v))

\* C5 witness: the state right after a rewire round that re-parented a vertex
C5_Witness ==
  /\ pc = "rewire"
  /\ ri > 1
  /\ Rewired(neighbor_indexes[ri - 1])
  /\ ParentOf(neighbor_indexes[ri - 1]) = new_idx

\* one step of a run, as C6 wants it
CostStepOk ==
  pc \in {"loop", "rewire"} =>
    \A v \in Indexes :
      /\ cost'[v] <= cost[v]
      /\ (cost'[v] # cost[v]) =>
           (pc = "rewire" /\ ri <= Len(neighbor_indexes) /\ neighbor_indexes[ri] = v)

\* C6: within a run the cost of an existing vertex never grows; it changes
\* only in a rewire round, and then to a strictly smaller value.
C6_CostNeverIncreases == [][CostStepOk]_vars

\* C6 witness: a vertex whose cost is below the one it was inserted with
\* (its parent is younger, and its cost is less than the cost through any
\* older vertex at the distance of its insertion)
C6_Witness ==
  /\ pc = "rewire"
  /\ ri > 1
  /\ Rewired(neighbor_indexes[ri - 1])
  /\ cost[neighbor_indexes[ri - 1]] = cost[new_idx]
        + distance(V(new_idx), V(neighbor_indexes[ri - 1]))
  /\ cost[neighbor_indexes[ri - 1]] < cost[new_idx] + delta_dis

\* C7: at every iteration boundary, cost[v] is the length of the chain of
\* parent links from vertex 0 to v.
C7_CostIsPathLength ==
  pc \in {"loop", "done"} =>
    \A v \in Indexes : cost[v] = PathLength(v, Len(vertices))

\* the sequence held by a path that is not None
PathSeq == CHOOSE p \in path : TRUE
WithinTolerance(q) == distance(q, goal_q.val) <= Tolerance

\* C8: a path that generate_path returns is non-empty, starts with the start
\* configuration and ends within the goal tolerance of the goal.
C8_PathEnds ==
  (pc = "done" /\ path # None) =>
    /\ Len(PathSeq) >= 1
    /\ PathSeq[1] = cur_q.val
    /\ WithinTolerance(PathSeq[Len(PathSeq)])

\* C8 witness: a returned path for a goal away from the start
C8_Witness == pc = "done" /\ path # None /\ goal_q.val # cur_q.val

\* C9: generate_path returns None exactly when no vertex inserted by its
\* iterations is within the goal tolerance, and it always gets to return.
C9_NoneIffNoHit ==
  /\ pc # "hang"
  /\ pc = "done" =>
       (path = None <=> \A v \in Indexes \ {0} : ~WithinTolerance(V(v)))

\* C9 witness: a run that grew the tree and returned None
C9_Witness == pc = "done" /\ path = None /\ Len(vertices) >= 3

\* the last inserted vertex passed the goal check, and the tree is as the
\* goal check left it
LastInsertedHit ==
  /\ pc \in {"loop", "done"}
  /\ Len(vertices) >= 2
  /\ new_idx = Len(vertices) - 1
  /\ WithinTolerance(V(new_idx))

\* the configurations on the chain of parent links, root first
RootToVertex(v) ==
  LET chain == ChainToRoot(v, Len(vertices))
  IN Reverse([n \in 1..Len(chain) |-> V(chain[n])])

\* C10 as claimed: the path is the chain of parent links from vertex 0 to the
\* goal-satisfying vertex, and nothing else.
C10_PathIsChain ==
  LastInsertedHit => path = Some(RootToVertex(new_idx))

\* C10 as amended: the path is that chain followed by one more element, the
\* goal configuration itself.
C10_PathIsChainThenGoal ==
  LastInsertedHit => path = Some(RootToVertex(new_idx) \o <<goal_q.val>>)

\* C10 witness: a path through at least three tree vertices
C10_Witness == LastInsertedHit /\ path # None /\ Len(PathSeq) >= 4

\* the vertices that passed the goal check, and the last of them
Hits == {v \in Indexes \ {0} : WithinTolerance(V(v))}
LastHit == CHOOSE v \in Hits : \A u \in Hits : u <= v

\* C11: the returned path is the chain of parent links of the last
\* goal-satisfying vertex in the tree as it stands when the loop has ended
\* (followed by the goal configuration).
C11_PathIsFinalChain ==
  (pc = "done" /\ path # None) =>
    path = Some(RootToVertex(LastHit) \o <<goal_q.val>>)

\* one step of a run, as C12 wants it: a goal check that succeeds records the
\* chain of the vertex just inserted, and nothing else touches the path
PathStepOk ==
  pc \in {"loop", "rewire"} =>
    IF pc = "rewire" /\ ri > Len(neighbor_indexes) /\ WithinTolerance(V(new_idx))
    THEN path' = Some(RootToVertex(new_idx) \o <<goal_q.val>>)
    ELSE path' = path

\* the returned path leads to the last vertex that passed the goal check
PathOfLastHit ==
  (pc = "done" /\ Hits # {}) =>
    /\ path # None
    /\ Len(PathSeq) >= 2
    /\ PathSeq[Len(PathSeq) - 1] = V(LastHit)

\* C12: every goal hit overwrites the recorded path with the path of the
\* vertex just inserted, so the path returned is that of the last hit,
\* whatever the costs of the hits.
C12_LastHitWins == []PathOfLastHit /\ [][PathStepOk]_vars

\* C12 witness: a finished run with two hits, the earlier one the cheaper
C12_Witness ==
  /\ pc = "done"
  /\ \E u \in Hits : u < LastHit /\ cost[u] < cost[LastHit]

\* C13: generate_path runs max_iter iterations whether or not the goal was
\* hit, never stops before, and each iteration adds at most one vertex.
C13_ExactlyMaxIter ==
  InRun =>
    /\ k <= max_iter
    /\ Len(vertices) <= k + 1 + (IF pc = "rewire" THEN 1 ELSE 0)
    /\ Len(vertices) <= max_iter + 1
    /\ pc = "done" => k = max_iter
    /\ pc # "hang"

\* C13 witness: a finished run that hit the goal before its last iteration
\* and filled the tree
C13_Witness ==
  /\ pc = "done"
  /\ Len(vertices) = max_iter + 1
  /\ \E u \in Hits : u < Len(vertices) - 1

\* setup_start_goal_joint was called and got as far as _check_init_collision
InitCollisionChecked ==
  /\ call.op = "setup_start_goal_joint"
  /\ err \notin {"NotFoundError", "AttributeError", "TypeError"}

BothObstacles(pair) == IsObstacleName(pair[1]) /\ IsObstacleName(pair[2])

C15_NoneRaisesNotFound ==
  (call.op = "setup_start_goal_joint"
     /\ (call.goal_q.kind = "None" \/ call.current_q.kind = "None"))
    => (pc = "error" /\ err = "NotFoundError")

\* C16: setup called with a start and a goal of different lengths fails with
\* NotFoundError and leaves no mismatched start and goal behind.
C16_DimensionChecked ==
  (call.op = "setup_start_goal_joint"
     /\ call.current_q.kind # "None" /\ call.goal_q.kind # "None"
     /\ call.current_q.dim # call.goal_q.dim)
    => (pc = "error" /\ err = "NotFoundError" /\ cur_q.dim = goal_q.dim)

\* after a successful setup the stored start and goal are the supplied ones
StoredAsSupplied ==
  (call.op = "setup_start_goal_joint" /\ pc = "ready") =>
    /\ cur_q.val = call.current_q.val /\ cur_q.dim = call.current_q.dim
    /\ goal_q.val = call.goal_q.val /\ goal_q.dim = call.goal_q.dim

\* the run that follows starts its tree with the supplied start
SeedStepOk ==
  (call.op = "setup_start_goal_joint" /\ pc = "ready") =>
    vertices' = <<call.current_q.val>>

\* C17: after a successful setup the stored start and goal equal the supplied
\* ones, and vertex 0 of the next run is the supplied start.
C17_StartGoalStored == []StoredAsSupplied /\ [][SeedStepOk]_vars

\* C17 witness: a successful setup whose start was passed as a plain list
C17_Witness ==
  /\ call.op = "setup_start_goal_joint"
  /\ pc = "ready"
  /\ call.current_q.kind = "list"

\* C18: setup raises NotFoundError for no supplied start and goal of equal
\* length.
C18_SuppliedNeverNotFound ==
  (call.op = "setup_start_goal_joint"
     /\ call.current_q.kind # "None" /\ call.goal_q.kind # "None"
     /\ call.current_q.dim = call.goal_q.dim)
    => err # "NotFoundError"

\* one step, as C20 wants it: get_rrt_tree returns, vertex by vertex, the
\* pair of the parent's and the vertex's configuration and changes nothing
TreeExportStepOk ==
  tree_out' # tree_out =>
    /\ tree_out' = Some([v \in 1..(Len(vertices) - 1) |-> <<V(ParentOf(v)), V(v)>>])
    /\ UNCHANGED <<vertices, edges, cost>>

\* C20: get_rrt_tree returns one (parent configuration, child configuration)
\* pair per non-root vertex, with the parent links as rewiring left them, and
\* changes neither vertices, parents nor costs.
C20_TreeExport == [][TreeExportStepOk]_vars

\* C20 witness: an export of a tree in which a vertex was rewired
C20_Witness == tree_out # None /\ \E v \in Indexes : Rewired(v)

\* the candidate of an iteration whose sample is s
Steered(s) == new_state(V(nearest_neighbor(s)), s)

\* an iteration whose sample is its own nearest vertex changes nothing
EqualSampleStepOk ==
  \A s \in Samples :
    (Extend(s) /\ s = V(nearest_neighbor(s))) => UNCHANGED <<vertices, edges, cost>>

\* C21: an iteration whose sample equals the nearest tree vertex adds no
\* vertex and leaves vertices, parent links and costs as they were.
C21_EqualSampleSkipped == [][EqualSampleStepOk]_vars

\* the Collision Oracle reports a collision with the links at q, or q is
\* outside a joint limit
Rejected(q) == obsObs \/ q \in collQ \/ q < q_limits_lower \/ q > q_limits_upper

\* an iteration with a rejected candidate leaves the tree alone, raises
\* nothing and ends, so that the loop goes on with its next round
RejectedStepOk ==
  \A s \in Samples :
    (Extend(s) /\ Rejected(Steered(s))) =>
      /\ UNCHANGED <<vertices, edges, cost, path>>
      /\ err' = "none" /\ pc' = "loop"
      /\ k' = k + 1

\* C22: an iteration whose candidate violates a joint limit or is reported in
\* collision changes neither vertices, parent links nor costs, raises
\* nothing, and the loop goes on with the next iteration.
C22_RejectedFrame == [][RejectedStepOk]_vars

\* C22 witness: the loop after the checks of a candidate that was reported in
\* collision and is no vertex of the tree, which has grown before
C22_Witness ==
  /\ pc = "loop"
  /\ Len(vertices) >= 2
  /\ link_q \in collQ
  /\ \A v \in Indexes : V(v) # link_q

\* the parent and the cost an inserted vertex gets
ChooseParentStepOk ==
  \A s \in Samples :
    (Extend(s) /\ Len(vertices') = Len(vertices) + 1) =>
      LET new == Len(vertices)
          new_q == vertices'[new + 1]
          nearest == nearest_neighbor(s)
          cands == {neighbor_indexes'[n] : n \in 1..Len(neighbor_indexes')} \cup {nearest}
          through(u) == cost[u] + distance(V(u), new_q)
          least == CHOOSE c \in {through(u) : u \in cands} : \A u \in cands : c <= through(u)
          p == edges'[Len(edges')][1]
      IN /\ p \in cands
         /\ cost'[new] = cost'[p] + distance(vertices'[p + 1], new_q)
         /\ cost'[new] = least
         /\ through(nearest) = least => p = nearest
         /\ through(nearest) > least =>
              \A u \in cands : through(u) = least => p <= u

\* C23: an inserted vertex gets the parent p with the least
\* cost[u] + distance(u, new) among the nearest vertex and the neighbour set,
\* and that sum as cost; on equal sums the nearest vertex is kept, and among
\* neighbours the one with the lowest index.
C23_ChooseParent == [][ChooseParentStepOk]_vars

\* C23 witness: a vertex just inserted whose parent ties with a neighbour of
\* lower index
C23_Witness ==
  /\ pc = "rewire" /\ ri = 1
  /\ \E n \in 1..Len(neighbor_indexes) :
       LET u == neighbor_indexes[n]
       IN /\ u < ParentOf(new_idx)
          /\ cost[u] + distance(V(u), V(new_idx)) = cost[new_idx]

\* the parent of vertex v in the edge list e
ParentIn(e, v) == e[CHOOSE j \in 1..Len(e) : e[j][2] = v][1]

\* one round of rewire: only the neighbour it is about can change, and only
\* when it is collision-free and strictly cheaper through the new vertex
RewireStepOk ==
  (pc = "rewire" /\ ri' = ri + 1) =>
    \A v \in Indexes :
      (cost'[v] # cost[v] \/ (v >= 1 /\ ParentIn(edges', v) # ParentIn(edges, v))) =>
        /\ v = neighbor_indexes[ri]
        /\ v # new_idx
        /\ v # ParentIn(edges, new_idx)
        /\ ~obsObs /\ V(v) \notin collQ
        /\ cost[new_idx] + distance(V(new_idx), V(v)) < cost[v]
        /\ ParentIn(edges', v) = new_idx
        /\ cost'[v] = cost[new_idx] + distance(V(new_idx), V(v))

\* C24: rewire re-parents a neighbour i to the new vertex only if i is
\* collision-free and cost[new] + distance(new, i) < cost[i]; the parent of
\* the new vertex is never re-parented to it, and no vertex outside the
\* neighbour set has its parent or cost changed.
C24_RewireConditions == [][RewireStepOk]_vars

\* C24 witness: rewire has ended with one neighbour re-parented and another
\* one left alone
C24_Witness ==
  /\ pc = "rewire"
  /\ ri > Len(neighbor_indexes)
  /\ \E n \in 1..Len(neighbor_indexes) :
       neighbor_indexes[n] # 0 /\ ParentOf(neighbor_indexes[n]) = new_idx
  /\ \E n \in 1..Len(neighbor_indexes) :
       neighbor_indexes[n] # 0 /\ ParentOf(neighbor_indexes[n]) # new_idx

\* C25: the neighbour set of an inserted vertex is exactly the set of the
\* vertices that existed before it at distance <= r, with
\* r = min(gamma * ln(n+1)/(n+1), delta) for n vertices before the insertion
\* (one joint), listed once each in index order; r never exceeds delta.
C25_NeighbourSet ==
  pc = "rewire" =>
    LET n == new_idx
        r == Min(gamma_RRTs * LnOverN[n + 1], delta_dis * 10000)
        within == {v \in 0..(n - 1) : distance(V(v), V(new_idx)) * 10000 <= r}
    IN /\ r <= delta_dis * 10000
       /\ {neighbor_indexes[j] : j \in 1..Len(neighbor_indexes)} = within
       /\ Len(neighbor_indexes) = Cardinality(within)
       /\ \A j \in 1..(Len(neighbor_indexes) - 1) :
            neighbor_indexes[j] < neighbor_indexes[j + 1]

\* C25 witness: a neighbour set that leaves out a vertex within delta
C25_Witness ==
  /\ pc = "rewire"
  /\ Len(neighbor_indexes) >= 1
  /\ \E v \in 0..(new_idx - 1) :
       /\ distance(V(v), V(new_idx)) <= delta_dis
       /\ \A j \in 1..Len(neighbor_indexes) : neighbor_indexes[j] # v

\* C26: the candidate is the nearest vertex moved toward the sample by
\* min(delta, distance to the sample): never farther than delta from the
\* nearest vertex, never past the sample, and the sample itself when that is
\* within delta.
C26_Steer ==
  (pc = "loop" /\ k < max_iter) =>
    \A s \in Samples :
      LET nearest_q == V(nearest_neighbor(s))
          q == new_state(nearest_q, s)
          d == distance(s, nearest_q)
      IN /\ distance(q, nearest_q) = Min(delta_dis, d)
         /\ distance(q, s) = d - Min(delta_dis, d)
         /\ d <= delta_dis => q = s

\* C26 witness: a tree of several vertices for which one sample is cut to the
\* step delta and another one, not a vertex, is reached
C26_Witness ==
  /\ pc = "loop" /\ k < max_iter
  /\ Len(vertices) >= 3
  /\ \E s \in Samples : distance(s, V(nearest_neighbor(s))) > delta_dis
  /\ \E s \in Samples : distance(s, V(nearest_neighbor(s))) \in 1..delta_dis

\* during a run vertex 0 is the start
StartIsRoot == InRun => V(0) = cur_q.val

\* a step of a run keeps every stored configuration at its index and appends
\* at most one, whose index is the next one; a round of rewire touches none
AppendOnlyStepOk ==
  pc \in {"loop", "rewire"} =>
    /\ Len(vertices') \in {Len(vertices), Len(vertices) + 1}
    /\ \A i \in 1..Len(vertices) : vertices'[i] = vertices[i]
    /\ Len(vertices') = Len(vertices) + 1 =>
         /\ edges'[Len(edges')][2] = Len(vertices)
         /\ DOMAIN cost' = 0..Len(vertices)
    /\ pc = "rewire" => vertices' = vertices

\* C27: within a run the configuration stored at an index never changes or
\* goes away, index 0 is the start, new vertices get the next index, and
\* rewire changes no configuration.
C27_AppendOnly == []StartIsRoot /\ [][AppendOnlyStepOk]_vars

\* C27 witness: a full tree in which rewire has acted
C27_Witness ==
  /\ InRun
  /\ Len(vertices) = max_iter + 1
  /\ \E v \in Indexes : Rewired(v)

\* a call of generate_path has just seeded its tree
JustSeeded == pc = "loop" /\ k = 0

\* the tree a call starts from, and the bookkeeping of any run
FreshTree ==
  /\ JustSeeded =>
       /\ vertices = <<cur_q.val>>
       /\ edges = << >>
       /\ cost = [i \in {0} |-> 0]
       /\ path = None
  /\ InRun => (DOMAIN cost = Indexes /\ Len(edges) = Len(vertices) - 1)

\* a call of generate_path on a planner that has run before
SecondCallStepOk ==
  (pc = "done" /\ pc' = "loop") =>
    /\ vertices' = <<cur_q.val>>
    /\ edges' = << >>
    /\ cost' = [i \in {0} |-> 0]
    /\ path' = None
    /\ k' = 0

\* C28: every call of generate_path starts from a tree holding only the
\* start with cost 0 and no edge and from no path; nothing of the tree, the
\* costs or the path of an earlier call is left in a later one.
C28_FreshTreePerCall == []FreshTree /\ [][SecondCallStepOk]_vars

\* C28 witness: a later call has just started on a planner whose earlier call
\* had returned
C28_Witness == JustSeeded /\ runs >= 2

\* every check of a configuration leaves the links at the poses of that
\* configuration and has the verdict of the oracle for it
PoseStepOk ==
  /\ \A s \in Samples :
       Extend(s) =>
         /\ link_q' = Steered(s)
         /\ (Len(vertices') = Len(vertices) + 1) <=> ~Rejected(Steered(s))
  /\ (pc = "rewire" /\ ri' = ri + 1) =>
       LET i == neighbor_indexes[ri]
       IN /\ link_q' = V(i)
          /\ (cost'[i] # cost[i]) <=>
               /\ ~obsObs /\ V(i) \notin collQ
               /\ cost[new_idx] + distance(V(new_idx), V(i)) < cost[i]

\* C29: before every query of a check the links are placed at the poses of
\* the configuration checked, so the verdict used for a candidate or for a
\* vertex in rewire is the oracle's verdict for that configuration, whatever
\* configuration was checked before.
C29_PosesBeforeQuery == [][PoseStepOk]_vars

\* C29 witness: inside rewire, after its check of a vertex that the oracle
\* reports in collision, with a further neighbour still to be checked
C29_Witness ==
  /\ pc = "rewire"
  /\ 1 < ri /\ ri <= Len(neighbor_indexes)
  /\ link_q \in collQ

\* C30: for every vertex v other than vertex 0,
\* cost[v] >= cost[parent[v]] + distance(parent[v], v), and cost[v] is at
\* least the length of the chain of parent links from vertex 0 to v.
C30_CostAtLeastParentPlusEdge ==
  InRun =>
    \A v \in Indexes \ {0} :
      /\ cost[v] >= cost[ParentOf(v)] + distance(V(ParentOf(v)), V(v))
      /\ cost[v] >= cost[ParentOf(v)]
      /\ cost[v] >= PathLength(v, Len(vertices))

\* C30 witness: a vertex whose parent was rewired to a lower cost after the
\* vertex was inserted, so that its cost is above the parent's plus the edge
C30_Witness ==
  /\ InRun
  /\ \E v \in Indexes \ {0} :
       cost[v] > cost[ParentOf(v)] + distance(V(ParentOf(v)), V(v))

\* C31: in a path of generate_path two consecutive waypoints are at most
\* delta apart, and the last one is within the goal tolerance of the one
\* before it.
C31_HopsBounded ==
  path # None =>
    /\ Len(PathSeq) >= 2
    /\ \A n \in 1..(Len(PathSeq) - 2) : distance(PathSeq[n], PathSeq[n + 1]) <= delta_dis
    /\ distance(PathSeq[Len(PathSeq) - 1], PathSeq[Len(PathSeq)]) <= Tolerance

\* C31 witness: a returned path with a hop of the full step delta and a last
\* hop of the full tolerance
C31_Witness ==
  /\ pc = "done" /\ path # None
  /\ Len(PathSeq) >= 4
  /\ \E n \in 1..(Len(PathSeq) - 2) : distance(PathSeq[n], PathSeq[n + 1]) = delta_dis
  /\ distance(PathSeq[Len(PathSeq) - 1], PathSeq[Len(PathSeq)]) = Tolerance

\* C32: when generate_path returns None, no vertex of the tree, vertex 0
\* included, is within the goal tolerance of the goal.
C32_NoneMeansNoVertexAtGoal ==
  (pc = "done" /\ path = None) => \A v \in Indexes : ~WithinTolerance(V(v))

\* C34: during and after a run the entry at 0-based position j of the edge
\* list has child j + 1, so edges[i-1] is the parent record of vertex i.
C34_EdgeOfVertex ==
  InRun =>
    /\ Len(edges) = Len(vertices) - 1
    /\ \A j \in 0..(Len(edges) - 1) : edges[EdgeSlot(j)][2] = j + 1
    /\ \A i \in Indexes \ {0} : edges[EdgeSlot(i - 1)][1] = ParentOf(i)

\* C34 witness: a tree of at least four vertices in which rewire has written
\* an edge by position and find_path has read the edges
C34_Witness ==
  /\ InRun
  /\ Len(edges) >= 3
  /\ path # None
  /\ \E v \in Indexes : Rewired(v) /\ v < Len(vertices) - 1

\* cost[0] stays 0 and vertex 0 has no parent
RootUntouched == InRun => (cost[0] = 0 /\ ~HasParent(0))

\* a round of rewire for vertex 0 fails the cost test and writes nothing
RootRoundStepOk ==
  (pc = "rewire" /\ ri' = ri + 1 /\ neighbor_indexes[ri] = 0) =>
    /\ ~(cost[new_idx] + distance(V(new_idx), V(0)) < cost[0])
    /\ UNCHANGED <<cost, edges>>

\* C35: rewire never changes the root: with vertex 0 in the neighbour set
\* the cost test is false for it, cost[0] stays 0, vertex 0 gets no parent
\* and no edge is written for i = 0.
C35_RootNeverRewired == []RootUntouched /\ [][RootRoundStepOk]_vars

\* C35 witness: rewire has gone through a neighbour set that holds vertex 0
\* and has re-parented another vertex of it
C35_Witness ==
  /\ pc = "rewire"
  /\ ri > Len(neighbor_indexes)
  /\ Len(neighbor_indexes) >= 2
  /\ neighbor_indexes[1] = 0
  /\ \E n \in 2..Len(neighbor_indexes) : ParentOf(neighbor_indexes[n]) = new_idx

\* C33: in filter_grasps with obj_info set, the collision checks of the
\* grasp pose and of the pre-grasp pose of every candidate are made with no
\* object attached to the robot collision manager, and when filter_grasps
\* returns None no object is attached.
C33_ChecksWithoutObject ==
  obj_info =>
    /\ \A n \in 1..Len(checks) :
         checks[n].stage \in {"grasp", "pre_grasp"} => ~checks[n].with_obj
    /\ (gpc = "returned" /\ grasp_pose = None) => robot_c_manager = {}

====
